---- MODULE Spec2Model ----
(***************************************************************************)
(* A model of weather.py: the HTTP fetcher make_nws_request, the formatter *)
(* format_alert and the two tool handlers get_alerts and get_forecast.     *)
(*                                                                         *)
(* Values.  A Python / JSON value is a record tagged by its field t:       *)
(*   [t |-> "null"]            None and JSON null (the code cannot tell    *)
(*                             them apart: both are None)                  *)
(*   [t |-> "bool", b |-> _]   True / False                                *)
(*   [t |-> "num",  n |-> _]   a number                                    *)
(*   [t |-> "str",  s |-> _]   a string, as the sequence of its pieces     *)
(*                             (literal segments of the templates and      *)
(*                             atomic upstream texts); concatenation is \o *)
(*   [t |-> "arr",  a |-> _]   a list, as a sequence of values             *)
(*   [t |-> "obj",  o |-> _]   a dict, as a function from its keys         *)
(* A raised exception is [t |-> "raise", exc |-> <class name>]; every      *)
(* operator that models an expression yields a value or a raise.           *)
(***************************************************************************)
EXTENDS Integers, Sequences, FiniteSets, TLC

\* pc        where the one handler invocation in progress stands
\* tool      the tool invoked ("none" when idle)
\* args      its arguments
\* requested the calls of make_nws_request it has made, in order
\* outcomes  what the network did with each call, in order
\* fetched   what each call of make_nws_request returned, in order
\* result    what the handler returned or raised
VARIABLES pc, tool, args, requested, outcomes, fetched, result

vars == <<pc, tool, args, requested, outcomes, fetched, result>>

-----------------------------------------------------------------------------
(* Bounds of the model *)

\* longest `features` list in an upstream alert collection
MaxFeatures == 2
\* longest `periods` list in an upstream forecast document
MaxPeriods == 6

-----------------------------------------------------------------------------
(* Python values *)

JNull == [t |-> "null"]
JBool(b) == [t |-> "bool", b |-> b]
JNum(n) == [t |-> "num", n |-> n]
JStr(s) == [t |-> "str", s |-> s]
JArr(a) == [t |-> "arr", a |-> a]
JObj(o) == [t |-> "obj", o |-> o]
Lit(text) == JStr(<<text>>)
EmptyObj == JObj(<<>>)

Raise(exc) == [t |-> "raise", exc |-> exc]
IsRaise(v) == v.t = "raise"

\* the first raise among the values of a sequence of evaluated expressions,
\* in evaluation order; JNull when none raises
FirstRaise(vs) ==
  IF \E i \in 1..Len(vs) : IsRaise(vs[i])
  THEN vs[CHOOSE i \in 1..Len(vs) :
              IsRaise(vs[i]) /\ \A j \in 1..(i-1) : ~IsRaise(vs[j])]
  ELSE JNull

\* bool(v): Python truthiness, as `not v` uses it
Truthy(v) ==
  CASE v.t = "null" -> FALSE
    [] v.t = "bool" -> v.b
    [] v.t = "num"  -> v.n # 0
    [] v.t = "str"  -> v.s # <<>>
    [] v.t = "arr"  -> v.a # <<>>
    [] v.t = "obj"  -> DOMAIN v.o # {}

\* `key in v`: True or False, or a raise for a value that is no container.
\* For a string, containment is decided on its pieces.
Contains(key, v) ==
  CASE v.t = "obj" -> JBool(key \in DOMAIN v.o)
    [] v.t = "arr" -> JBool(\E i \in 1..Len(v.a) : v.a[i] = Lit(key))
    [] v.t = "str" -> JBool(\E i \in 1..Len(v.s) : v.s[i] = key)
    [] OTHER       -> Raise("TypeError")

\* v[key] for a string key
Subscript(v, key) ==
  IF v.t = "obj"
  THEN IF key \in DOMAIN v.o THEN v.o[key] ELSE Raise("KeyError")
  ELSE Raise("TypeError")

\* v.get(key, default): only a dict has the method
Get(v, key, default) ==
  IF v.t = "obj"
  THEN IF key \in DOMAIN v.o THEN v.o[key] ELSE default
  ELSE Raise("AttributeError")

\* the pieces of str(v), as an f-string field renders a value
Str(v) ==
  CASE v.t = "str"  -> v.s
    [] v.t = "null" -> <<"None">>
    [] v.t = "bool" -> IF v.b THEN <<"True">> ELSE <<"False">>
    [] v.t = "num"  -> <<ToString(v.n)>>
    [] v.t = "arr"  -> <<"[...]">>
    [] v.t = "obj"  -> <<"{...}">>

\* a set of strings as a sequence (the keys a dict iterates over)
RECURSIVE KeySeq(_)
KeySeq(ks) ==
  IF ks = {} THEN <<>>
  ELSE LET k == CHOOSE x \in ks : TRUE IN <<Lit(k)>> \o KeySeq(ks \ {k})

\* iter(v): the items a for-loop or comprehension walks, as a list, or a
\* raise (a string yields its pieces, a dict its keys)
Iter(v) ==
  CASE v.t = "arr" -> v
    [] v.t = "str" -> JArr([i \in 1..Len(v.s) |-> Lit(v.s[i])])
    [] v.t = "obj" -> JArr(KeySeq(DOMAIN v.o))
    [] OTHER       -> Raise("TypeError")

\* v[:n] of a list or a string; any other value raises (the input sets hold
\* no dict under `periods`, whose slicing raises a version-dependent class)
Slice(v, n) ==
  CASE v.t = "arr" -> JArr(SubSeq(v.a, 1, IF Len(v.a) < n THEN Len(v.a) ELSE n))
    [] v.t = "str" -> JStr(SubSeq(v.s, 1, IF Len(v.s) < n THEN Len(v.s) ELSE n))
    [] OTHER       -> Raise("TypeError")

\* sep.join(strs) for a sequence of str values
RECURSIVE JoinFrom(_, _, _)
JoinFrom(sep, strs, i) ==
  IF i > Len(strs) THEN <<>>
  ELSE IF i = Len(strs) THEN strs[i].s
  ELSE strs[i].s \o sep \o JoinFrom(sep, strs, i + 1)

Join(sep, strs) == JStr(JoinFrom(sep, strs, 1))

-----------------------------------------------------------------------------
(* Constants of the program *)

NWS_API_BASE == "https://api.weather.gov"
USER_AGENT == "weather-app/1.0"
Separator == <<"\n---\n">>

AlertsUnavailable == Lit("Unable to fetch alerts or no alerts found.")
NoActiveAlerts == Lit("No active alerts for this state.")
PointsUnavailable == Lit("Unable to fetch forecast data for this location.")
ForecastUnavailable == Lit("Unable to fetch detailed forecast.")

-----------------------------------------------------------------------------
(* format_alert *)

format_alert(feature) ==
  LET properties == Get(feature, "properties", EmptyObj) IN
  IF IsRaise(properties) THEN properties
  ELSE
    LET event == Get(properties, "event", Lit("Unknown Event"))
        area == Get(properties, "areaDesc", Lit("Unknown Area"))
        severity == Get(properties, "severity", Lit("Unknown Severity"))
        description == Get(properties, "description",
                           Lit("No description available."))
        instructions == Get(properties, "instruction",
                            Lit("No specific instructions provided."))
        raised == FirstRaise(<<event, area, severity, description, instructions>>)
    IN IF IsRaise(raised) THEN raised
       ELSE JStr(<<"**">> \o Str(event) \o <<"**\n">>
                 \o <<"*Area:* ">> \o Str(area) \o <<"\n\n">>
                 \o <<"*Severity:* ">> \o Str(severity) \o <<"\n">>
                 \o Str(description) \o <<"\n\n">>
                 \o <<"**Instructions:** ">> \o Str(instructions))

-----------------------------------------------------------------------------
(* make_nws_request *)

\* the GET that client.get is asked to send
Request(url) ==
  [url |-> url,
   headers |-> [ua |-> USER_AGENT, accept |-> "application/geo+json"],
   timeout |-> 30]

\* client.get(url, ...) under a network outcome: a response, or the raise of
\* httpx (a value that is no URL is refused before anything is sent)
client_get(url, outcome) ==
  IF url.t # "str" THEN Raise("TypeError")
  ELSE IF outcome.err # "none" THEN Raise(outcome.err)
  ELSE [t |-> "response", status |-> outcome.status, body |-> outcome.body]

\* response.raise_for_status()
raise_for_status(response) ==
  IF response.status \in 200..299 THEN response ELSE Raise("HTTPStatusError")

\* response.json()
response_json(response) ==
  IF response.body.t = "undecodable" THEN Raise("JSONDecodeError")
  ELSE response.body

\* the try block of make_nws_request: its value, or what it raises
TryBlock(url, outcome) ==
  LET response == client_get(url, outcome) IN
  IF IsRaise(response) THEN response
  ELSE LET checked == raise_for_status(response) IN
       IF IsRaise(checked) THEN checked ELSE response_json(response)

\* a mutant of make_nws_request: `except httpx.HTTPError`, so that a
\* decode error escapes
make_nws_request_catching_http_only(url, outcome) ==
  LET r == TryBlock(url, outcome) IN
  IF IsRaise(r) /\ r.exc # "JSONDecodeError" THEN JNull ELSE r

make_nws_request(url, outcome) ==
  LET r == TryBlock(url, outcome) IN
  IF IsRaise(r) THEN JNull ELSE r

-----------------------------------------------------------------------------
(* get_alerts *)

alerts_url(state) == JStr(<<NWS_API_BASE, "/alerts/active/area/", state>>)

\* [format_alert(feature) for feature in items], from item i on: the list of
\* the renderings, or the first raise
RECURSIVE FormatAll(_, _)
FormatAll(items, i) ==
  IF i > Len(items) THEN JArr(<<>>)
  ELSE LET head == format_alert(items[i]) IN
       IF IsRaise(head) THEN head
       ELSE LET rest == FormatAll(items, i + 1) IN
            IF IsRaise(rest) THEN rest ELSE JArr(<<head>> \o rest.a)

\* a mutant of get_alerts_body: the test `'features' not in data` is gone
get_alerts_body_without_key_test(data) ==
  IF ~Truthy(data) THEN AlertsUnavailable
  ELSE LET features == Subscript(data, "features") IN
  IF IsRaise(features) THEN features
  ELSE IF ~Truthy(features) THEN NoActiveAlerts
  ELSE LET items == Iter(features) IN
  IF IsRaise(items) THEN items
  ELSE LET alerts == FormatAll(items.a, 1) IN
  IF IsRaise(alerts) THEN alerts
  ELSE Join(Separator, alerts.a)

\* a mutant of get_alerts_body: `if data['features'] == []` for
\* `if not data['features']`
get_alerts_body_empty_list_only(data) ==
  IF ~Truthy(data) THEN AlertsUnavailable
  ELSE LET has == Contains("features", data) IN
  IF IsRaise(has) THEN has
  ELSE IF ~has.b THEN AlertsUnavailable
  ELSE LET features == Subscript(data, "features") IN
  IF IsRaise(features) THEN features
  ELSE IF features = JArr(<<>>) THEN NoActiveAlerts
  ELSE LET items == Iter(features) IN
  IF IsRaise(items) THEN items
  ELSE LET alerts == FormatAll(items.a, 1) IN
  IF IsRaise(alerts) THEN alerts
  ELSE Join(Separator, alerts.a)

\* the handler from the return of make_nws_request on
get_alerts_body(data) ==
  IF ~Truthy(data) THEN AlertsUnavailable
  ELSE LET has == Contains("features", data) IN
  IF IsRaise(has) THEN has
  ELSE IF ~has.b THEN AlertsUnavailable
  ELSE LET features == Subscript(data, "features") IN
  IF IsRaise(features) THEN features
  ELSE IF ~Truthy(features) THEN NoActiveAlerts
  ELSE LET items == Iter(features) IN
  IF IsRaise(items) THEN items
  ELSE LET alerts == FormatAll(items.a, 1) IN
  IF IsRaise(alerts) THEN alerts
  ELSE Join(Separator, alerts.a)

-----------------------------------------------------------------------------
(* get_forecast *)

\* f'{x}' of a float given in tenths: -771 renders as "-77.1", 380 as "38.0"
FloatStr(tenths) ==
  LET m == IF tenths < 0 THEN -tenths ELSE tenths IN
  (IF tenths < 0 THEN <<"-">> ELSE <<>>)
    \o <<ToString(m \div 10), ".", ToString(m % 10)>>

points_url(latitude, longitude) ==
  JStr(<<NWS_API_BASE, "/points/">> \o FloatStr(latitude) \o <<",">>
       \o FloatStr(longitude))

\* a mutant of get_forecast_after_points: properties.get('forecast') for
\* properties['forecast']
get_forecast_after_points_lenient(points_data) ==
  IF ~Truthy(points_data) THEN PointsUnavailable
  ELSE LET properties == Subscript(points_data, "properties") IN
  IF IsRaise(properties) THEN properties
  ELSE LET forecast_url == Get(properties, "forecast", JNull) IN
  IF IsRaise(forecast_url) THEN forecast_url
  ELSE [t |-> "await", url |-> forecast_url]

\* a mutant of get_forecast_after_points: the URL is read from
\* properties['forecastHourly']
get_forecast_after_points_hourly(points_data) ==
  IF ~Truthy(points_data) THEN PointsUnavailable
  ELSE LET properties == Subscript(points_data, "properties") IN
  IF IsRaise(properties) THEN properties
  ELSE LET forecast_url == Subscript(properties, "forecastHourly") IN
  IF IsRaise(forecast_url) THEN forecast_url
  ELSE [t |-> "await", url |-> forecast_url]

\* the handler between the two fetches: a value to return, a raise, or
\* [t |-> "await", url |-> forecast_url], the second call of make_nws_request
get_forecast_after_points(points_data) ==
  IF ~Truthy(points_data) THEN PointsUnavailable
  ELSE LET properties == Subscript(points_data, "properties") IN
  IF IsRaise(properties) THEN properties
  ELSE LET forecast_url == Subscript(properties, "forecast") IN
  IF IsRaise(forecast_url) THEN forecast_url
  ELSE [t |-> "await", url |-> forecast_url]

\* one pass of the loop body up to forecasts.append: the rendering or a raise
format_period(period) ==
  LET name == Subscript(period, "name")
      temperature == Subscript(period, "temperature")
      temperatureUnit == Subscript(period, "temperatureUnit")
      windSpeed == Subscript(period, "windSpeed")
      windDirection == Subscript(period, "windDirection")
      foreast_text == Subscript(period, "detailedForecast")
      raised == FirstRaise(<<name, temperature, temperatureUnit, windSpeed,
                             windDirection, foreast_text>>)
  IN IF IsRaise(raised) THEN raised
     ELSE LET temp == Str(temperature) \o <<"°">> \o Str(temperatureUnit)
              wind == Str(windSpeed) \o <<" ">> \o Str(windDirection)
          IN JStr(<<"**">> \o Str(name) \o <<"**\n">>
                  \o <<"- Temperature: ">> \o temp \o <<"\n">>
                  \o <<"- Wind: ">> \o wind \o <<"\n">>
                  \o <<"- Forecast: ">> \o Str(foreast_text) \o <<"\n">>)

\* a mutant of ForecastLoop: the return stands after the loop
RECURSIVE ForecastLoop_return_after_loop(_, _, _)
ForecastLoop_return_after_loop(items, i, forecasts) ==
  IF i > Len(items) THEN Join(Separator, forecasts)
  ELSE LET forecast == format_period(items[i]) IN
       IF IsRaise(forecast) THEN forecast
       ELSE ForecastLoop_return_after_loop(items, i + 1,
                                           Append(forecasts, forecast))

\* the for loop over items, entered at item i with the accumulator forecasts:
\* the return sits inside the loop body, so the first pass leaves the
\* function; with no pass the function falls off its end and yields None
RECURSIVE ForecastLoop(_, _, _)
ForecastLoop(items, i, forecasts) ==
  IF i > Len(items) THEN JNull
  ELSE LET forecast == format_period(items[i]) IN
       IF IsRaise(forecast) THEN forecast
       ELSE Join(Separator, Append(forecasts, forecast))

\* a mutant of get_forecast_body: the message of the first fetch is reused
get_forecast_body_first_message(forecast_data) ==
  IF ~Truthy(forecast_data) THEN PointsUnavailable
  ELSE LET properties == Subscript(forecast_data, "properties") IN
  IF IsRaise(properties) THEN properties
  ELSE LET periods == Subscript(properties, "periods") IN
  IF IsRaise(periods) THEN periods
  ELSE LET sliced == Slice(periods, 5) IN
  IF IsRaise(sliced) THEN sliced
  ELSE ForecastLoop(Iter(sliced).a, 1, <<>>)

\* the handler from the return of the second make_nws_request on
get_forecast_body(forecast_data) ==
  IF ~Truthy(forecast_data) THEN ForecastUnavailable
  ELSE LET properties == Subscript(forecast_data, "properties") IN
  IF IsRaise(properties) THEN properties
  ELSE LET periods == Subscript(properties, "periods") IN
  IF IsRaise(periods) THEN periods
  ELSE LET sliced == Slice(periods, 5) IN
  IF IsRaise(sliced) THEN sliced
  ELSE ForecastLoop(Iter(sliced).a, 1, <<>>)

-----------------------------------------------------------------------------
(* The inputs: tool arguments and upstream responses *)

States == {"CA", "zz"}
Latitudes == {389, -5}
Longitudes == {-770, 1224}

Unset == [t |-> "unset"]
Undecodable == [t |-> "undecodable"]

\* all sequences over S of length 0..n
SeqsUpTo(S, n) == UNION {[1..k -> S] : k \in 0..n}

\* alert features: complete, without properties, with some fields and a null
\* field, with null properties, and one that is no object at all
FullFeature ==
  JObj([properties |-> JObj([event |-> Lit("Flood Warning"),
                             areaDesc |-> Lit("Napa"),
                             severity |-> Lit("Severe"),
                             description |-> Lit("Heavy rain"),
                             instruction |-> Lit("Move to higher ground")])])
BareFeature == JObj([id |-> Lit("urn:1")])
PartialFeature ==
  JObj([properties |-> JObj([event |-> Lit("Heat Advisory"),
                             severity |-> JNull])])
NullPropsFeature == JObj([properties |-> JNull])
Features ==
  {FullFeature, BareFeature, PartialFeature, NullPropsFeature, Lit("feature")}

\* what an alert collection may hold under `features`
FeaturesValues ==
  {JArr(fs) : fs \in SeqsUpTo(Features, MaxFeatures)}
    \cup {JNull, JBool(FALSE), JBool(TRUE), JNum(0), JNum(7), JStr(<<>>),
          Lit("none"), EmptyObj, JObj([a |-> FullFeature])}

\* bodies the alerts endpoint may answer with
AlertBodies ==
  {JObj([features |-> v]) : v \in FeaturesValues}
    \cup {JObj([type |-> Lit("FeatureCollection"), features |-> JArr(<<>>)]),
          JObj([title |-> Lit("no features here")]),
          EmptyObj, JNull, JArr(<<>>), JArr(<<Lit("features")>>),
          JArr(<<JNum(1)>>), Lit("features"), Lit("oops"), JNum(0), JNum(5),
          JBool(TRUE), Undecodable}

ForecastUrls == {Lit("https://api.weather.gov/gridpoints/LWX/97,71/forecast"),
                 Lit("https://api.weather.gov/gridpoints/MTR/85,105/forecast")}

\* what a points document may hold under `properties`
PointsProperties ==
  {JObj([forecast |-> u, forecastHourly |-> Lit("https://api.weather.gov/hourly")])
     : u \in ForecastUrls \cup {JNull, JNum(3), JStr(<<>>)}}
    \cup {JObj([forecastHourly |-> Lit("https://api.weather.gov/hourly")]),
          EmptyObj, JNull, Lit("forecast"), JArr(<<Lit("forecast")>>)}

\* bodies the points endpoint may answer with
PointsBodies ==
  {JObj([properties |-> p]) : p \in PointsProperties}
    \cup {JObj([id |-> Lit("point")]), EmptyObj, JNull, JArr(<<>>),
          JArr(<<JNum(1)>>), JStr(<<>>), Lit("properties"), JNum(0),
          JBool(FALSE), Undecodable}

PeriodFields == {"name", "temperature", "temperatureUnit", "windSpeed",
                 "windDirection", "detailedForecast"}

\* the i-th period of a document: every field present
Period(i) ==
  JObj([name |-> JStr(<<"Period", ToString(i)>>),
        temperature |-> JNum(60 + i),
        temperatureUnit |-> Lit("F"),
        windSpeed |-> Lit("5 mph"),
        windDirection |-> Lit("NW"),
        detailedForecast |-> JStr(<<"Forecast", ToString(i)>>)])

\* a period without the field `missing`
PeriodWithout(i, missing) ==
  JObj([k \in PeriodFields \ {missing} |-> Period(i).o[k]])

\* period lists of every length up to MaxPeriods: all periods complete, or
\* the one at `bad` lacking a field or not an object
PeriodLists ==
  {[i \in 1..n |-> Period(i)] : n \in 0..MaxPeriods}
    \cup {[i \in 1..n |-> IF i = bad THEN PeriodWithout(i, f) ELSE Period(i)]
            : n \in 1..MaxPeriods, bad \in 1..2, f \in PeriodFields}
    \cup {[i \in 1..n |-> IF i = bad THEN Lit("period") ELSE Period(i)]
            : n \in 1..2, bad \in 1..2}

\* what a forecast document may hold under `properties`
ForecastProperties ==
  {JObj([periods |-> JArr(ps), units |-> Lit("us")]) : ps \in PeriodLists}
    \cup {JObj([periods |-> v]) : v \in {JNull, JNum(4), Lit("soon"), JStr(<<>>)}}
    \cup {JObj([units |-> Lit("us")]), EmptyObj, JNull, Lit("periods")}

\* bodies the forecast endpoint may answer with
ForecastBodies ==
  {JObj([properties |-> p]) : p \in ForecastProperties}
    \cup {JObj([id |-> Lit("forecast")]), EmptyObj, JNull, JArr(<<>>),
          JArr(<<JNum(1)>>), JNum(0), Undecodable}

\* what the network can do with a GET whose answers come from `bodies`:
\* a transport error, or a response with a status and a body
NetOutcomes(bodies) ==
  {[err |-> e, status |-> 0, body |-> JNull]
     : e \in {"ConnectError", "ConnectTimeout", "ReadTimeout"}}
    \cup {[err |-> "none", status |-> 200, body |-> b] : b \in bodies}
    \cup {[err |-> "none", status |-> st, body |-> b]
            : st \in {204, 301, 404, 503}, b \in {JNull, EmptyObj, Undecodable}}

\* a value that is no URL never reaches the network
NotSent == [err |-> "not sent", status |-> 0, body |-> JNull]

Outcomes(url, bodies) ==
  IF url.t = "str" THEN NetOutcomes(bodies) ELSE {NotSent}

-----------------------------------------------------------------------------
(* The handlers as steps: a call runs to its first await, the return of     *)
(* make_nws_request runs the handler to its next await or to its end        *)

Init ==
  /\ pc = "idle"
  /\ tool = "none"
  /\ args = <<>>
  /\ requested = <<>>
  /\ outcomes = <<>>
  /\ fetched = <<>>
  /\ result = Unset

\* get_alerts(state) up to `await make_nws_request(url)`
CallGetAlerts ==
  /\ pc = "idle"
  /\ \E state \in States :
       /\ args' = [state |-> state]
       /\ requested' = <<Request(alerts_url(state))>>
  /\ tool' = "get_alerts"
  /\ pc' = "alerts_fetch"
  /\ outcomes' = <<>>
  /\ fetched' = <<>>
  /\ result' = Unset

\* make_nws_request returns and get_alerts runs to its end
AlertsFetched ==
  /\ pc = "alerts_fetch"
  /\ \E outcome \in Outcomes(requested[1].url, AlertBodies) :
       LET data == make_nws_request(requested[1].url, outcome) IN
       /\ outcomes' = Append(outcomes, outcome)
       /\ fetched' = Append(fetched, data)
       /\ result' = IF IsRaise(data) THEN data ELSE get_alerts_body(data)
  /\ pc' = "done"
  /\ UNCHANGED <<tool, args, requested>>

\* get_forecast(latitude, longitude) up to the first await
CallGetForecast ==
  /\ pc = "idle"
  /\ \E latitude \in Latitudes, longitude \in Longitudes :
       /\ args' = [latitude |-> latitude, longitude |-> longitude]
       /\ requested' = <<Request(points_url(latitude, longitude))>>
  /\ tool' = "get_forecast"
  /\ pc' = "points_fetch"
  /\ outcomes' = <<>>
  /\ fetched' = <<>>
  /\ result' = Unset

\* the points fetch returns: get_forecast ends, or awaits the forecast fetch
PointsFetched ==
  /\ pc = "points_fetch"
  /\ \E outcome \in Outcomes(requested[1].url, PointsBodies) :
       LET points_data == make_nws_request(requested[1].url, outcome)
           next == IF IsRaise(points_data) THEN points_data
                   ELSE get_forecast_after_points(points_data)
       IN /\ outcomes' = Append(outcomes, outcome)
          /\ fetched' = Append(fetched, points_data)
          /\ IF next.t = "await"
             THEN /\ requested' = Append(requested, Request(next.url))
                  /\ pc' = "forecast_fetch"
                  /\ result' = result
             ELSE /\ requested' = requested
                  /\ pc' = "done"
                  /\ result' = next
  /\ UNCHANGED <<tool, args>>

\* the forecast fetch returns and get_forecast runs to its end
ForecastFetched ==
  /\ pc = "forecast_fetch"
  /\ \E outcome \in Outcomes(requested[2].url, ForecastBodies) :
       LET forecast_data == make_nws_request(requested[2].url, outcome) IN
       /\ outcomes' = Append(outcomes, outcome)
       /\ fetched' = Append(fetched, forecast_data)
       /\ result' = IF IsRaise(forecast_data) THEN forecast_data
                    ELSE get_forecast_body(forecast_data)
  /\ pc' = "done"
  /\ UNCHANGED <<tool, args, requested>>

\* the server hands the result to the caller; nothing of the invocation stays
Deliver ==
  /\ pc = "done"
  /\ pc' = "idle"
  /\ tool' = "none"
  /\ args' = <<>>
  /\ requested' = <<>>
  /\ outcomes' = <<>>
  /\ fetched' = <<>>
  /\ result' = Unset

Next ==
  \/ CallGetAlerts
  \/ AlertsFetched
  \/ CallGetForecast
  \/ PointsFetched
  \/ ForecastFetched
  \/ Deliver

Spec == Init /\ [][Next]_vars

-----------------------------------------------------------------------------
(* Vocabulary of the properties *)

Done(name) == pc = "done" /\ tool = name

\* the network outcome made the fetch fail: a transport error, a status
\* outside 2xx, or a body that is no JSON
Failed(outcome) ==
  \/ outcome.err # "none"
  \/ outcome.status \notin 200..299
  \/ outcome.body.t = "undecodable"

HasKey(v, key) == v.t = "obj" /\ key \in DOMAIN v.o

\* the alert collection carries a non-empty list under `features`
HasFeatureList(data) ==
  /\ HasKey(data, "features")
  /\ data.o["features"].t = "arr"
  /\ data.o["features"].a # <<>>

\* the points document carries properties.forecast
HasForecastUrl(points) ==
  /\ HasKey(points, "properties")
  /\ HasKey(points.o["properties"], "forecast")

\* the forecast document carries a list under properties.periods, every
\* period of it with all six fields
WellFormedForecast(doc) ==
  /\ HasKey(doc, "properties")
  /\ HasKey(doc.o["properties"], "periods")
  /\ doc.o["properties"].o["periods"].t = "arr"
  /\ \A i \in 1..Len(doc.o["properties"].o["periods"].a) :
       \A f \in PeriodFields : HasKey(doc.o["properties"].o["periods"].a[i], f)

PeriodsOf(doc) == doc.o["properties"].o["periods"].a

\* where the k-th of the joined texts ends, its separator included
RECURSIVE EndOf(_, _)
EndOf(strs, k) ==
  IF k = 0 THEN 0 ELSE EndOf(strs, k - 1) + Len(strs[k].s) + 1

\* text is exactly strs[1] + sep + ... + sep + strs[n]: every one of them at
\* its place, in order, a separator between neighbours and nothing else
IsJoinOf(text, strs) ==
  /\ Len(text) = EndOf(strs, Len(strs)) - 1
  /\ \A i \in 1..Len(strs) :
       /\ SubSeq(text, EndOf(strs, i - 1) + 1, EndOf(strs, i) - 1) = strs[i].s
       /\ i < Len(strs) => <<text[EndOf(strs, i)]>> = Separator

-----------------------------------------------------------------------------
(* C1 *)

\* C1: for every upstream response whose `features` is a non-empty sequence
\* f1..fn, get_alerts returns exactly format_alert(f1) + "\n---\n" + ... +
\* format_alert(fn): a string holding one rendering per feature, in order,
\* with the separator only between neighbours.
C1_AlertsJoinEveryFeature ==
  (Done("get_alerts") /\ HasFeatureList(fetched[1])) =>
    LET fs == fetched[1].o["features"].a IN
    /\ result.t = "str"
    /\ \A i \in 1..Len(fs) : ~IsRaise(format_alert(fs[i]))
    /\ IsJoinOf(result.s, [i \in 1..Len(fs) |-> format_alert(fs[i])])

\* The part of C1 the code keeps: when format_alert renders every feature of
\* the list, the result is the join of the renderings; when it raises on one,
\* get_alerts raises the same.
AlertsJoinedWhenFormattable ==
  (Done("get_alerts") /\ HasFeatureList(fetched[1])) =>
    LET fs == fetched[1].o["features"].a IN
    IF \A i \in 1..Len(fs) : ~IsRaise(format_alert(fs[i]))
    THEN /\ result.t = "str"
         /\ IsJoinOf(result.s, [i \in 1..Len(fs) |-> format_alert(fs[i])])
    ELSE IsRaise(result)

-----------------------------------------------------------------------------
(* C2 *)

\* C2: if the fetch result is Absent, or the returned JSON object has no
\* `features` field, get_alerts returns exactly "Unable to fetch alerts or no
\* alerts found.", for every state argument.
C2_AlertsUnavailable ==
  (Done("get_alerts")
     /\ (fetched[1] = JNull
           \/ (fetched[1].t = "obj" /\ ~HasKey(fetched[1], "features")))) =>
    result = AlertsUnavailable

\* a fetched, non-empty object without `features` was reported unavailable
C2_Witness ==
  /\ Done("get_alerts")
  /\ ~Failed(outcomes[1])
  /\ fetched[1].t = "obj"
  /\ Truthy(fetched[1])
  /\ ~HasKey(fetched[1], "features")
  /\ result = AlertsUnavailable

-----------------------------------------------------------------------------
(* C3 *)

\* C3 as stated: get_alerts returns exactly "No active alerts for this
\* state." if and only if the fetch succeeded and the response has a
\* `features` field that is present but an empty sequence.
C3_NoActiveIffEmptySequence ==
  Done("get_alerts") =>
    (result = NoActiveAlerts
       <=> /\ ~Failed(outcomes[1])
           /\ HasKey(fetched[1], "features")
           /\ fetched[1].o["features"] = JArr(<<>>))

\* C3, amended: get_alerts returns exactly "No active alerts for this state."
\* if and only if the fetch returned a JSON object with a `features` field
\* whose value is falsy: an empty sequence, but also null, false, 0, an empty
\* string or an empty object. An object without the field is always reported
\* with the other string, "Unable to fetch alerts or no alerts found.".
C3_NoActiveIffFalsyFeatures ==
  Done("get_alerts") =>
    /\ result = NoActiveAlerts
         <=> /\ ~Failed(outcomes[1])
             /\ HasKey(fetched[1], "features")
             /\ ~Truthy(fetched[1].o["features"])
    /\ (fetched[1].t = "obj" /\ ~HasKey(fetched[1], "features"))
         => (result = AlertsUnavailable /\ result # NoActiveAlerts)

\* an empty `features` list was reported as no active alerts
C3_Witness ==
  /\ Done("get_alerts")
  /\ HasKey(fetched[1], "features")
  /\ fetched[1].o["features"] = JArr(<<>>)
  /\ result = NoActiveAlerts

-----------------------------------------------------------------------------
(* C4 *)

\* C4: get_forecast returns exactly "Unable to fetch forecast data for this
\* location." when the points fetch is Absent, and exactly "Unable to fetch
\* detailed forecast." when the points fetch succeeded and the forecast fetch
\* that followed is Absent; either string is reported only for its own fetch:
\* the first only when the points fetch was the last one made, the second
\* only after a forecast fetch that gave nothing.
C4_ForecastSentinels ==
  Done("get_forecast") =>
    /\ fetched[1] = JNull => result = PointsUnavailable
    /\ (Len(fetched) = 2 /\ fetched[2] = JNull) => result = ForecastUnavailable
    /\ result = PointsUnavailable =>
         (Len(requested) = 1 /\ Len(fetched) = 1 /\ ~Truthy(fetched[1]))
    /\ result = ForecastUnavailable =>
         (Len(requested) = 2 /\ Len(fetched) = 2 /\ Truthy(fetched[1])
            /\ ~Truthy(fetched[2]))

\* the points fetch succeeded, the forecast fetch failed on the network, and
\* the second string was returned
C4_Witness ==
  /\ Done("get_forecast")
  /\ Len(outcomes) = 2
  /\ ~Failed(outcomes[1])
  /\ Failed(outcomes[2])
  /\ fetched[2] = JNull
  /\ result = ForecastUnavailable

-----------------------------------------------------------------------------
(* C5 *)

Sentinels == {AlertsUnavailable, PointsUnavailable, ForecastUnavailable}

\* C5: make_nws_request never raises and returns None for every non-2xx
\* status, every transport error and every body that is no JSON; so a handler
\* one of whose fetches failed that way ends with one of its fixed strings,
\* never with an error.
C5_FetchFailuresAreAbsent ==
  /\ \A i \in 1..Len(fetched) :
       /\ ~IsRaise(fetched[i])
       /\ Failed(outcomes[i]) => fetched[i] = JNull
  /\ (pc = "done" /\ \E i \in 1..Len(outcomes) : Failed(outcomes[i])) =>
       result \in Sentinels

\* a 200 response whose body is no JSON came back as None and the handler
\* ended with its fixed string
C5_Witness ==
  /\ pc = "done"
  /\ outcomes[Len(outcomes)].err = "none"
  /\ outcomes[Len(outcomes)].status = 200
  /\ outcomes[Len(outcomes)].body.t = "undecodable"
  /\ fetched[Len(fetched)] = JNull
  /\ result \in Sentinels

-----------------------------------------------------------------------------
(* C6: format_alert on its own *)

PropertyKeys == {"event", "areaDesc", "severity", "description", "instruction"}

FieldText ==
  [event |-> "Tornado Watch", areaDesc |-> "Travis", severity |-> "Extreme",
   description |-> "Rotation seen", instruction |-> "Take shelter"]

DefaultText ==
  [event |-> "Unknown Event", areaDesc |-> "Unknown Area",
   severity |-> "Unknown Severity",
   description |-> "No description available.",
   instruction |-> "No specific instructions provided."]

\* every `properties` object: each field missing, null or a text
PropertiesObjects ==
  {JObj([k \in {x \in PropertyKeys : c[x] # "missing"} |->
           IF c[k] = "null" THEN JNull ELSE Lit(FieldText[k])])
     : c \in [PropertyKeys -> {"missing", "null", "text"}]}

\* the features format_alert is applied to
FormatInputs ==
  {JObj([properties |-> p])
     : p \in PropertiesObjects \cup {JNull, Lit("text"), JArr(<<>>), JNum(1)}}
    \cup {EmptyObj, BareFeature, JNull, Lit("feature"), JArr(<<>>), JNum(2)}

InitFormat ==
  /\ pc = "format_call"
  /\ tool = "format_alert"
  /\ args \in {[feature |-> f] : f \in FormatInputs}
  /\ requested = <<>>
  /\ outcomes = <<>>
  /\ fetched = <<>>
  /\ result = Unset

ApplyFormat ==
  /\ pc = "format_call"
  /\ result' = format_alert(args.feature)
  /\ pc' = "format_done"
  /\ UNCHANGED <<tool, args, requested, outcomes, fetched>>

SpecFormat == InitFormat /\ [][ApplyFormat]_vars

Occurs(piece, text) == \E i \in 1..Len(text) : text[i] = piece

\* the keys of the feature's `properties` (none when it has no such object)
GivenKeys(feature) ==
  IF HasKey(feature, "properties") /\ feature.o["properties"].t = "obj"
  THEN DOMAIN feature.o["properties"].o
  ELSE {}

\* the text has the five sections and the default of every field not given
WellRendered(feature, text) ==
  /\ text # <<>>
  /\ text[1] = "**"
  /\ \A label \in {"*Area:* ", "*Severity:* ", "**Instructions:** "} :
       Occurs(label, text)
  /\ \A k \in PropertyKeys \ GivenKeys(feature) : Occurs(DefaultText[k], text)

\* C6: format_alert is total: for every JSON input (properties missing, null
\* or no object, any field missing or null) it does not fail and returns a
\* non-empty string with all five sections and the default of every missing
\* field.
C6_FormatAlertTotal ==
  pc = "format_done" =>
    /\ ~IsRaise(result)
    /\ result.t = "str"
    /\ WellRendered(args.feature, result.s)

\* The part of C6 the code keeps: on an object whose `properties` is missing
\* or an object, format_alert returns such a string; on anything else it
\* raises AttributeError.
FormatAlertWhereDefined ==
  pc = "format_done" =>
    IF /\ args.feature.t = "obj"
       /\ HasKey(args.feature, "properties") =>
            args.feature.o["properties"].t = "obj"
    THEN result.t = "str" /\ WellRendered(args.feature, result.s)
    ELSE result = Raise("AttributeError")

-----------------------------------------------------------------------------
(* C7 *)

\* C7: every invocation of get_alerts or get_forecast that completes without
\* raising returns a string, also get_forecast when both fetches succeed and
\* properties.periods is an empty sequence.
C7_ReturnsString ==
  (pc = "done" /\ ~IsRaise(result)) => result.t = "str"

-----------------------------------------------------------------------------
(* C8 *)

\* C8 as stated: whenever the points fetch is not Absent but the returned
\* JSON omits properties.forecast, get_forecast fails with an unhandled error
\* instead of returning a fixed string, and issues no second fetch.
C8_MissingUrlAlwaysRaises ==
  (Done("get_forecast") /\ fetched[1] # JNull /\ ~HasForecastUrl(fetched[1])) =>
    /\ IsRaise(result)
    /\ Len(requested) = 1

\* C8, amended: whenever the points fetch returns a non-empty (truthy) JSON
\* value that omits properties.forecast, get_forecast fails with an unhandled
\* KeyError or TypeError, returns none of the fixed strings and issues no
\* second fetch; an empty value ({}, [], "", 0, false) is reported like
\* Absent, with "Unable to fetch forecast data for this location.".
C8_MissingUrlRaisesWhenTruthy ==
  Done("get_forecast") =>
    /\ (Truthy(fetched[1]) /\ ~HasForecastUrl(fetched[1])) =>
         /\ IsRaise(result)
         /\ result.exc \in {"KeyError", "TypeError"}
         /\ Len(requested) = 1
         /\ Len(fetched) = 1
    /\ ~Truthy(fetched[1]) =>
         (result = PointsUnavailable /\ Len(requested) = 1)

\* a points document with properties but without properties.forecast made
\* get_forecast raise KeyError after its only fetch
C8_Witness ==
  /\ Done("get_forecast")
  /\ HasKey(fetched[1], "properties")
  /\ fetched[1].o["properties"].t = "obj"
  /\ ~HasForecastUrl(fetched[1])
  /\ result = Raise("KeyError")
  /\ Len(requested) = 1

-----------------------------------------------------------------------------
(* C9 *)

-----------------------------------------------------------------------------
(* C10 *)

\* C10: no retries and a strict order of fetches: get_alerts issues exactly
\* one GET; get_forecast issues the points GET first and then at most one
\* forecast GET, only after the points fetch returned a value that is not
\* Absent, to the URL under that value's properties.forecast; after a fetch
\* that returned Absent no further GET is issued.
C10_FetchOrder ==
  /\ Len(outcomes) = Len(fetched)
  /\ Len(fetched) <= Len(requested)
  /\ Len(requested) <= Len(fetched) + 1
  /\ pc = "done" => Len(requested) = Len(fetched)
  /\ tool = "get_alerts" =>
       /\ Len(requested) = 1
       /\ requested[1].url.s = <<NWS_API_BASE, "/alerts/active/area/", args.state>>
  /\ tool = "get_forecast" =>
       /\ Len(requested) \in 1..2
       /\ requested[1].url = points_url(args.latitude, args.longitude)
       /\ Len(requested) = 2 =>
            /\ Len(fetched) >= 1
            /\ fetched[1] # JNull
            /\ HasForecastUrl(fetched[1])
            /\ requested[2].url = fetched[1].o["properties"].o["forecast"]
  /\ \A i \in 1..Len(fetched) : fetched[i] = JNull => Len(requested) = i

\* get_forecast ended after both of its fetches
C10_Witness ==
  /\ Done("get_forecast")
  /\ Len(requested) = 2
  /\ Len(fetched) = 2
  /\ requested[2].url \in ForecastUrls

====
